---- MODULE Spec2Model ----
(***************************************************************************)
(* bitvortex: the data model of src/src/data_bucket.rs (MetaData,          *)
(* DataBlob<T>, DataBucketBlob, DataBucket) and DataBlob's implementation  *)
(* of the Source trait of src/src/lib.rs.  The Pipe trait of lib.rs has    *)
(* signatures only and no implementor: it has no behaviour to model.       *)
(*                                                                         *)
(* Two specifications share the module:                                    *)
(*   Spec      a caller driving one DataBucket (add_blob, get_blob,        *)
(*             pop_blob) and one blob it holds outside the bucket;         *)
(*   SpecBlob  one DataBlob<T>: new, the accessors and stream().           *)
(*                                                                         *)
(* Elements of every kind T are written as integer codes: the code is      *)
(* generic in T (T: Clone) and never inspects an element.                  *)
(***************************************************************************)
EXTENDS Integers, Sequences, FiniteSets, TLC

\* ------------------------------------------------------------------ bounds

\* Longest data array the caller builds.
MaxLen == 1

\* Longest data array of the single-blob specification SpecBlob.
MaxBlobLen == 2

\* ------------------------------------------------------------- Option<T>

None == [tag |-> "None"]

Some(x) == [tag |-> "Some", val |-> x]

unwrap(o) == o.val

\* ------------------------------------------------------------ value sets

\* The variants of DataBucketBlob, one per element kind.
Variants ==
    {"Bool", "Char", "Int8", "U8", "Int16", "U16", "Int32", "U32", "Int64",
     "U64", "Int128", "U128", "ISize", "USize", "Float32", "Float64", "Str"}

\* The variants the caller of Spec wraps its blobs in.
TestVariants == {"Int8", "Float64"}

\* The element kinds SpecBlob instantiates DataBlob<T> with.
TestKinds == {"Bool", "Int8", "Float64", "Str"}

\* Element codes.
Elems == {0, 1}

\* Names: String, the empty string included.
Names == {"", "a", "b"}

SeqsUpTo(S, n) == UNION {[1..k -> S] : k \in 0..n}

\* MetaData records the caller writes.  dimensions is chosen independently of
\* the data, so that it agrees with the array length in some blobs only.
MetaDatas(descs, dims) ==
    [name : Names,
     units : {None},
     description : descs,
     dimensions : dims,
     unitary_dimensions : {<<1>>},
     links : {<< >>}]

BucketMetas == MetaDatas({None}, {<<1>>})

BlobMetas == MetaDatas({None, Some("d")}, {<<1>>, <<2>>})

\* ------------------------------------------------------------ DataBlob<T>

\* A mutant of DataBlob_new: the array is cut to the size the metadata states.
DataBlob_new_validating(new_data, new_meta) ==
    LET n == new_meta.dimensions[1]
    IN  [data |-> SubSeq(new_data, 1, IF Len(new_data) < n THEN Len(new_data) ELSE n),
         meta |-> new_meta]

DataBlob_new(new_data, new_meta) == [data |-> new_data, meta |-> new_meta]

get_data(blob) == blob.data

DataBlob_get_meta_data(blob) == blob.meta

\* Vec<T>::clone: a new vector with a copy of every element, in order.
clone(v) == [i \in 1..Len(v) |-> v[i]]

\* Source::stream for DataBlob<T>: stream::iter over a clone of the data.  The
\* stream owns its items; it keeps no reference to the blob.
stream(blob) == [items |-> clone(blob.data)]

\* Stream::poll_next of stream::iter: the next item and the rest, or None.
poll_next(s) ==
    IF s.items = << >>
    THEN [item |-> None, rest |-> s]
    ELSE [item |-> Some(Head(s.items)), rest |-> [items |-> Tail(s.items)]]

\* --------------------------------------------------------- DataBucketBlob

Wrap(variant, blob) == [variant |-> variant, blob |-> blob]

\* meta_data_unwrap!: every variant dispatches to the wrapped blob's accessor.
get_meta_data(bb) == DataBlob_get_meta_data(bb.blob)

\* The DataBucketBlob values the caller of Spec can build.
BucketBlobs ==
    {Wrap(v, DataBlob_new(d, m)) :
        v \in TestVariants, d \in SeqsUpTo(Elems, MaxLen), m \in BucketMetas}

\* ------------------------------------------------- HashMap<String, _>

contains_key(map, k) == k \in DOMAIN map

\* HashMap::insert: the entry under k is set (an old one is replaced).
insert(map, k, v) == [x \in DOMAIN map \cup {k} |-> IF x = k THEN v ELSE map[x]]

\* HashMap::get
get(map, k) == IF k \in DOMAIN map THEN Some(map[k]) ELSE None

\* HashMap::remove: the map without k, and what was under k.
remove(map, k) ==
    [map |-> [x \in DOMAIN map \ {k} |-> map[x]], ret |-> get(map, k)]

\* ------------------------------------------------------------- DataBucket

DataBucket_new == << >>

get_blob(data, blob_name) == get(data, blob_name)

\* A mutant of add_blob: last write wins.
add_blob_overwriting(data, new_blob) ==
    [data |-> insert(data, get_meta_data(new_blob).name, new_blob), ret |-> None]

\* A mutant of add_blob: a blob whose name is free is accepted and dropped.
add_blob_dropping(data, new_blob) ==
    IF contains_key(data, get_meta_data(new_blob).name)
    THEN [data |-> data, ret |-> Some(new_blob)]
    ELSE [data |-> data, ret |-> None]

\* add_blob: the bucket after the call and the value returned.
add_blob(data, new_blob) ==
    LET name == get_meta_data(new_blob).name
    IN  IF contains_key(data, name)
        THEN [data |-> data, ret |-> Some(new_blob)]
        ELSE [data |-> insert(data, name, new_blob), ret |-> None]

\* A mutant of pop_blob: the blob is returned and stays registered.
pop_blob_keeping(data, name) == [data |-> data, ret |-> get(data, name)]

\* A mutant of pop_blob: removing a name empties the bucket.
pop_blob_clearing(data, name) == [data |-> << >>, ret |-> get(data, name)]

\* pop_blob: the bucket after the call and the value returned.
pop_blob(data, name) ==
    LET r == remove(data, name) IN [data |-> r.map, ret |-> r.ret]

\* ------------------------------------------------------------------ state

VARIABLES
    bucket,   \* DataBucket.data: name -> DataBucketBlob
    held,     \* Option: the blob the caller owns outside the bucket
    op,       \* the last call made: its name and argument
    ret,      \* what the last DataBucket call returned
    popd,     \* history: the pop_blob that a following add_blob replaces
    blob,     \* SpecBlob: Option, the DataBlob<T> under test
    kind,     \* SpecBlob: the element kind T
    strm,     \* SpecBlob: Option, the stream the last stream() call returned
    snap,     \* SpecBlob: history, the blob's data when strm was produced
    out       \* SpecBlob: the items polled from strm so far

bucketVars == <<bucket, held, ret, popd>>

blobVars == <<blob, kind, strm, snap, out>>

vars == <<bucket, held, op, ret, popd, blob, kind, strm, snap, out>>

NoOp == [name |-> "none"]

BlobIdle == blob = None /\ kind = "Int8" /\ strm = None /\ snap = << >> /\ out = << >>

BucketIdle == bucket = DataBucket_new /\ held = None /\ ret = None /\ popd = None

\* ------------------------------------------------- Spec: one DataBucket

Init == op = NoOp /\ BucketIdle /\ BlobIdle

\* The history of a replacement ends with the call after the add_blob, and
\* with any other DataBucket call in between.
PopdAfter == IF popd # None /\ popd.stage = "replaced" THEN None ELSE popd

\* The caller drops the blob it holds.
Drop ==
    /\ held # None
    /\ held' = None
    /\ op' = [name |-> "drop"]
    /\ ret' = None
    /\ popd' = PopdAfter
    /\ UNCHANGED <<bucket, blobVars>>

\* DataBlob::new wrapped in a variant: the caller, holding no blob, builds one.
NewBlob ==
    \E b \in BucketBlobs :
        /\ held = None
        /\ held' = Some(b)
        /\ op' = [name |-> "new"]
        /\ ret' = None
        /\ popd' = PopdAfter
        /\ UNCHANGED <<bucket, blobVars>>

\* A mutant of Rename: the bucket's entries alias the caller's blob, so the
\* entry registered under the old name is renamed with it.
RenameAliased(n) ==
    /\ held # None
    /\ LET old == get_meta_data(unwrap(held)).name
           nb == [unwrap(held) EXCEPT !.blob.meta.name = n]
       IN  /\ held' = Some(nb)
           /\ bucket' = IF contains_key(bucket, old)
                        THEN [bucket EXCEPT ![old].blob.meta.name = n]
                        ELSE bucket
    /\ op' = [name |-> "get_mut_meta_data"]
    /\ ret' = None
    /\ popd' = PopdAfter
    /\ UNCHANGED blobVars

\* get_mut_meta_data().name = n on the blob the caller holds.
Rename(n) ==
    /\ held # None
    /\ held' = Some([unwrap(held) EXCEPT !.blob.meta.name = n])
    /\ op' = [name |-> "get_mut_meta_data"]
    /\ ret' = None
    /\ popd' = PopdAfter
    /\ UNCHANGED <<bucket, blobVars>>

\* DataBucket::add_blob(held): the blob moves into the call; a rejected blob
\* comes back to the caller.
AddBlob ==
    /\ held # None
    /\ LET b == unwrap(held)
           r == add_blob(bucket, b)
       IN  /\ bucket' = r.data
           /\ ret' = r.ret
           /\ held' = r.ret
           /\ op' = [name |-> "add_blob", arg |-> b]
           /\ popd' = IF popd # None /\ popd.stage = "popped"
                         /\ popd.name = get_meta_data(b).name
                      THEN [popd EXCEPT !.stage = "replaced"]
                      ELSE None
    /\ UNCHANGED blobVars

\* A mutant of GetBlob: the lookup takes the entry out of the map.
GetBlobTaking(n) ==
    /\ ret' = get_blob(bucket, n)
    /\ bucket' = remove(bucket, n).map
    /\ op' = [name |-> "get_blob", arg |-> n]
    /\ popd' = None
    /\ UNCHANGED <<held, blobVars>>

\* DataBucket::get_blob(&n): a shared borrow; ret is what the reference shows.
GetBlob(n) ==
    /\ ret' = get_blob(bucket, n)
    /\ op' = [name |-> "get_blob", arg |-> n]
    /\ popd' = None
    /\ UNCHANGED <<bucket, held, blobVars>>

\* DataBucket::pop_blob(n): the caller takes the returned blob.
PopBlob(n) ==
    LET r == pop_blob(bucket, n)
    IN  /\ bucket' = r.data
        /\ ret' = r.ret
        /\ held' = IF r.ret # None THEN r.ret ELSE held
        /\ op' = [name |-> "pop_blob", arg |-> n]
        /\ popd' = IF contains_key(bucket, n)
                   THEN [stage |-> "popped", name |-> n,
                         variant |-> bucket[n].variant,
                         count |-> Cardinality(DOMAIN bucket)]
                   ELSE None
        /\ UNCHANGED blobVars

Next ==
    \/ NewBlob
    \/ Drop
    \/ \E n \in Names : Rename(n)
    \/ AddBlob
    \/ \E n \in Names : GetBlob(n)
    \/ \E n \in Names : PopBlob(n)

Spec == Init /\ [][Next]_vars

\* ------------------------------------------------ SpecBlob: one DataBlob<T>

\* The arrays the caller of SpecBlob writes.
BlobDatas == SeqsUpTo(Elems, MaxBlobLen)

InitBlob == op = NoOp /\ BucketIdle /\ BlobIdle

\* DataBlob::<T>::new(new_data, new_meta), for any element kind T.
BlobNew ==
    \E k \in TestKinds, d \in BlobDatas, m \in BlobMetas :
        /\ blob = None
        /\ blob' = Some(DataBlob_new(d, m))
        /\ kind' = k
        /\ op' = [name |-> "new", data |-> d, meta |-> m]
        /\ UNCHANGED <<strm, snap, out, bucketVars>>

\* A mutant of SetData: a stream shares the blob's storage, so that writing the
\* blob rewrites the items a stream has yet to yield.
SetDataShared(d) ==
    /\ blob # None
    /\ blob' = Some([unwrap(blob) EXCEPT !.data = d])
    /\ strm' = IF strm = None THEN None ELSE Some([items |-> d])
    /\ op' = [name |-> "get_mut_data"]
    /\ UNCHANGED <<kind, snap, out, bucketVars>>

\* *blob.get_mut_data() = d: the caller rewrites the owned array.  The metadata
\* and a stream produced earlier are other objects.
SetData(d) ==
    /\ blob # None
    /\ blob' = Some([unwrap(blob) EXCEPT !.data = d])
    /\ op' = [name |-> "get_mut_data"]
    /\ UNCHANGED <<kind, strm, snap, out, bucketVars>>

\* blob.stream(): a shared borrow of the blob; the caller keeps the new stream
\* in place of the one it had.
Stream ==
    /\ blob # None
    /\ strm' = Some(stream(unwrap(blob)))
    /\ snap' = get_data(unwrap(blob))
    /\ out' = << >>
    /\ op' = [name |-> "stream"]
    /\ UNCHANGED <<blob, kind, bucketVars>>

\* The consumer polls the stream once.
Poll ==
    /\ strm # None
    /\ LET r == poll_next(unwrap(strm))
       IN  /\ strm' = Some(r.rest)
           /\ out' = IF r.item = None THEN out ELSE Append(out, unwrap(r.item))
           /\ op' = [name |-> "poll_next", item |-> r.item]
    /\ UNCHANGED <<blob, kind, snap, bucketVars>>

NextBlob ==
    \/ BlobNew
    \/ \E d \in BlobDatas : SetData(d)
    \/ Stream
    \/ Poll

SpecBlob == InitBlob /\ [][NextBlob]_vars

\* ------------------------------------------------------------- properties

\* The name a DataBucketBlob carries.
NameOf(bb) == get_meta_data(bb).name

\* Every entry of map a is an entry of map b, unchanged.
KeptIn(a, b) == \A k \in DOMAIN a : k \in DOMAIN b /\ b[k] = a[k]

\* C1: add_blob of a blob whose name is already a key returns Some of that very
\* blob (variant, data and metadata as passed in) and leaves the bucket exactly
\* as it was: the same keys, every entry unchanged, nothing overwritten.
C1_AddExistingRejected ==
    [][(op'.name = "add_blob" /\ held # None
            /\ contains_key(bucket, NameOf(unwrap(held))))
        => /\ ret' = held
           /\ ret' = Some(op'.arg)
           /\ unwrap(ret').variant = unwrap(held).variant
           /\ get_data(unwrap(ret').blob) = get_data(unwrap(held).blob)
           /\ get_meta_data(unwrap(ret')) = get_meta_data(unwrap(held))
           /\ bucket' = bucket
           /\ DOMAIN bucket' = DOMAIN bucket]_vars

\* C1 witness: an add_blob was rejected, and the rejected blob differs from the
\* entry registered under its name.
C1_Witness ==
    /\ op.name = "add_blob"
    /\ ret # None
    /\ contains_key(bucket, NameOf(unwrap(ret)))
    /\ bucket[NameOf(unwrap(ret))] # unwrap(ret)
    /\ Cardinality(DOMAIN bucket) >= 2

\* C2: add_blob of a blob whose name n is not a key returns None; get_blob(n)
\* right after it returns a blob named n of the inserted variant with the
\* inserted data; every entry present before the call is unchanged.
C2_AddFreshRegistered ==
    [][(op'.name = "add_blob" /\ held # None
            /\ ~contains_key(bucket, NameOf(unwrap(held))))
        => LET b == unwrap(held)
               g == get_blob(bucket', NameOf(b))
           IN  /\ ret' = None
               /\ g # None
               /\ NameOf(unwrap(g)) = NameOf(b)
               /\ unwrap(g).variant = b.variant
               /\ get_data(unwrap(g).blob) = get_data(b.blob)
               /\ KeptIn(bucket, bucket')]_vars

\* C2 witness: an add_blob was accepted into a bucket that held other entries.
C2_Witness ==
    /\ op.name = "add_blob"
    /\ ret = None
    /\ get_blob(bucket, NameOf(op.arg)) = Some(op.arg)
    /\ Cardinality(DOMAIN bucket) >= 2

\* C3: pop_blob of a registered name n returns exactly the blob registered
\* under n, removes that entry only, and a get_blob(n) or pop_blob(n) right
\* after it returns nothing.
C3_PopReturnsRegistered ==
    [][(op'.name = "pop_blob" /\ contains_key(bucket, op'.arg))
        => LET n == op'.arg
           IN  /\ ret' = Some(bucket[n])
               /\ DOMAIN bucket' = DOMAIN bucket \ {n}
               /\ KeptIn(bucket', bucket)
               /\ (DOMAIN bucket = {n} => bucket' = DataBucket_new)
               /\ get_blob(bucket', n) = None
               /\ pop_blob(bucket', n).ret = None
               /\ pop_blob(bucket', n).data = bucket']_vars

\* C3 witness: a pop_blob returned a blob and other entries remain.
C3_Witness ==
    /\ op.name = "pop_blob"
    /\ ret # None
    /\ NameOf(unwrap(ret)) = op.arg
    /\ ~contains_key(bucket, op.arg)
    /\ Cardinality(DOMAIN bucket) >= 2

\* C4: every key of the bucket denotes a blob whose MetaData.name is that key,
\* whatever the caller does to the blobs it holds outside the bucket.
C4_KeyIsName == \A k \in DOMAIN bucket : NameOf(bucket[k]) = k

\* C4 witness: the caller has renamed the blob it holds, to a name that is no
\* key, next to a bucket of two entries or more.
C4_Witness ==
    /\ op.name = "get_mut_meta_data"
    /\ held # None
    /\ Cardinality(DOMAIN bucket) >= 2
    /\ ~contains_key(bucket, NameOf(unwrap(held)))

\* C5: get_blob and pop_blob of a name that is not a key return nothing and
\* leave the bucket as it was; get_blob of any name leaves the bucket as it was.
C5_AbsentNoEffect ==
    [][/\ (op'.name \in {"get_blob", "pop_blob"} /\ ~contains_key(bucket, op'.arg))
            => (ret' = None /\ bucket' = bucket)
       /\ (op'.name = "get_blob") => (bucket' = bucket /\ held' = held)]_vars

\* C5 witness: a pop_blob of a name that is no key found nothing, in a bucket
\* that holds other entries, while the caller holds a blob of that name.
C5_Witness ==
    /\ op.name = "pop_blob"
    /\ ret = None
    /\ held # None
    /\ NameOf(unwrap(held)) = op.arg
    /\ bucket # DataBucket_new

\* C6: a stream yields, item by item and in order, the array the blob owned
\* when stream() was called, whatever is written to the blob afterwards; each
\* stream() call starts from the array the blob owns at that call, and leaves
\* the blob as it was.
C6_StreamIsSnapshot ==
    /\ [](strm # None => out \o unwrap(strm).items = snap)
    /\ []((op.name = "poll_next" /\ op.item = None) => out = snap)
    /\ [][op'.name = "stream"
            => /\ blob # None
               /\ blob' = blob
               /\ strm' # None
               /\ unwrap(strm').items = get_data(unwrap(blob))]_vars

\* C6 witness: a stream was polled to its end after the blob's array had been
\* rewritten, and yielded the array of the time of the call.
C6_Witness ==
    /\ op.name = "poll_next"
    /\ op.item = None
    /\ Len(out) = 2
    /\ out[1] # out[2]
    /\ blob # None
    /\ get_data(unwrap(blob)) # out

\* C7: DataBlob::new(s, meta) owns s, element for element and in order, and
\* meta, for any s and meta: the empty array and an array whose length is not
\* the one the metadata states included.
C7_NewKeepsInput ==
    op.name = "new"
        => /\ blob # None
           /\ get_data(unwrap(blob)) = op.data
           /\ Len(get_data(unwrap(blob))) = Len(op.data)
           /\ \A i \in 1..Len(op.data) : get_data(unwrap(blob))[i] = op.data[i]
           /\ DataBlob_get_meta_data(unwrap(blob)) = op.meta

\* C7 witness: a blob was built from an array longer than its metadata states.
C7_Witness ==
    /\ op.name = "new"
    /\ kind = "Float64"
    /\ Len(op.data) = 2
    /\ op.data[1] # op.data[2]
    /\ op.meta.dimensions = <<1>>
    /\ blob = Some(DataBlob_new(op.data, op.meta))

\* C8: the name of every MetaData is non-empty: the blob the caller holds and
\* every blob registered in the bucket has a name of length at least 1, and the
\* empty string is no key of the bucket.
C8_NameNonEmpty ==
    /\ held # None => Len(NameOf(unwrap(held))) >= 1
    /\ \A k \in DOMAIN bucket : Len(k) >= 1 /\ Len(NameOf(bucket[k])) >= 1

\* C10: pop_blob(n) of a registered name followed by add_blob(b') of a blob
\* named n: the add_blob returns None, get_blob(n) then returns b', the bucket
\* has as many entries as before the pop, and add_blob(b') without the pop
\* would have been rejected.
C10_PopThenAddReplaces ==
    /\ [][(op'.name = "pop_blob" /\ contains_key(bucket, op'.arg))
            => \A b \in BucketBlobs :
                   NameOf(b) = op'.arg => add_blob(bucket, b).ret = Some(b)]_vars
    /\ [][(op'.name = "add_blob" /\ held # None /\ popd # None
                /\ popd.stage = "popped" /\ popd.name = NameOf(unwrap(held)))
            => /\ ret' = None
               /\ get_blob(bucket', popd.name) = held
               /\ Cardinality(DOMAIN bucket') = popd.count]_vars

\* C10 witness: an entry was replaced by a blob of another variant.
C10_Witness ==
    /\ popd # None
    /\ popd.stage = "replaced"
    /\ op.name = "add_blob"
    /\ ret = None
    /\ op.arg.variant # popd.variant
    /\ bucket[popd.name] = op.arg
    /\ popd.count >= 2

====
